---- MODULE Spec2Model ----
(***************************************************************************)
(* Model of bybit.py: the endpoint functions and make_request, the         *)
(* collector loop store_info, and the CLI driver main that starts one      *)
(* thread per selected data type.                                          *)
(***************************************************************************)
EXTENDS Integers, Sequences, FiniteSets, TLC

\* ------------------------------------------------------------------ bounds
MaxTime == 1        \* the wall clock runs over 0..MaxTime
MaxDuration == 1    \* --time is drawn from 0..MaxDuration
MaxSelected == 2    \* at most this many data-type flags are set in one run
MaxCode == 1        \* ret_code is drawn from -MaxCode..MaxCode
MaxCalls == 2       \* cap on the endpoint calls of one store_info invocation

\* ------------------------------------------------------- module constants
API_LINK == "https://api-testnet.bybit.com/v2/public/"
PAIR == "BTCUSD"
LIMIT == 500
INTERVAL == "1"
SINCE == "1581231260"
BASE_SAVE_DIR == "../../datasets/"
DefaultDepth == 3
DefaultGranularity == 0

Pairs == {"BTCUSD", "ETHUSD"}

\* The info_type strings main passes to store_info, in the order of its ifs.
InfoTypes == {"ticker", "order_book", "spread", "trades", "candles"}

\* The CLI flag gating each info_type.
FlagOf(info_type) ==
    CASE info_type = "ticker" -> "ticker"
      [] info_type = "order_book" -> "order_book"
      [] info_type = "spread" -> "spreads"
      [] info_type = "trades" -> "trades"
      [] info_type = "candles" -> "candles"

\* ------------------------------------------------------------ the exchange
\* What the exchange answers to a GET: a JSON envelope, no answer at all
\* (DNS, connection, timeout), or a body that is not JSON.
Envelopes ==
    [ret_code : (0 - MaxCode)..MaxCode,
     ret_msg : {"OK", "invalid symbol"},
     result : {"payload_a", "payload_b"}]
NoEnvelope == [ret_code |-> 0, ret_msg |-> "", result |-> ""]
Down == [fault |-> "down", body |-> NoEnvelope]
Garbage == [fault |-> "garbage", body |-> NoEnvelope]
Answers == {[fault |-> "none", body |-> e] : e \in Envelopes} \cup {Down, Garbage}

\* The answers a collector run is checked against: a success, an application
\* error, and a transport failure.
Accepted ==
    [fault |-> "none",
     body |-> [ret_code |-> 0, ret_msg |-> "OK", result |-> "payload_a"]]
Rejected ==
    [fault |-> "none",
     body |-> [ret_code |-> MaxCode, ret_msg |-> "invalid symbol",
               result |-> "payload_a"]]
CollectorAnswers == {Accepted, Rejected, Down}

\* make_request's handling of a parsed envelope.
make_request_inverted(resp) ==
    IF resp.ret_code # 0 THEN resp.result ELSE resp.ret_msg

make_request(resp) ==
    IF resp.ret_code = 0 THEN resp.result ELSE resp.ret_msg

\* requests.get(url).json(): the exception raised, or "ok".
Transport(answer) ==
    CASE answer.fault = "down" -> "ConnectionError"
      [] answer.fault = "garbage" -> "JSONDecodeError"
      [] OTHER -> "ok"

\* --------------------------------------------------------- endpoint functions
get_order_book(pair) ==
    <<API_LINK, "orderBook/L2", <<"symbol", pair>> >>

get_trades(pair, limit) ==
    <<API_LINK, "trading-records", <<"symbol", pair>>, <<"limit", limit>> >>

get_candles(pair, interval, since) ==
    <<API_LINK, "kline/list", <<"symbol", pair>>, <<"interval", interval>>,
      <<"from", since>> >>

get_ticker(pair, interval, since) ==
    <<API_LINK, "kline/list", <<"symbol", pair>>, <<"interval", interval>>,
      <<"from", since>>, <<"limit", 1>> >>

EndpointNames == {"get_order_book", "get_trades", "get_candles", "get_ticker"}

\* The URL an endpoint function builds when called with its defaults and pair.
UrlOf(fn, pair) ==
    CASE fn = "get_order_book" -> get_order_book(pair)
      [] fn = "get_trades" -> get_trades(pair, LIMIT)
      [] fn = "get_candles" -> get_candles(pair, INTERVAL, SINCE)
      [] fn = "get_ticker" -> get_ticker(pair, INTERVAL, SINCE)

\* The keyword parameters each endpoint function accepts.
Params(fn) ==
    CASE fn = "get_order_book" -> {"pair", "debug"}
      [] fn = "get_trades" -> {"pair", "limit", "debug"}
      [] fn = "get_candles" -> {"pair", "interval", "since", "debug"}
      [] fn = "get_ticker" -> {"pair", "interval", "since", "debug"}

FN_MAPPING ==
    [order_book |-> "get_order_book",
     trades |-> "get_trades",
     ticker |-> "get_ticker"]

\* ------------------------------------------------------------------- state
VARIABLES
    args,       \* the parsed command line
    mainpc,     \* "none" | "init" | "starting" | "returned"
    threads,    \* the list of threads main built (their info_type)
    next,       \* index of the next thread main starts
    pc,         \* per info_type: the collector thread's position
    start,      \* per info_type: store_info's start time
    err,        \* per info_type: the exception that ended the thread
    tests,      \* per info_type: loop tests evaluated
    calls,      \* per info_type: endpoint calls attempted
    requests,   \* per info_type: HTTP requests issued
    returned,   \* per info_type: endpoint calls that returned a value
    written,    \* per info_type: the records this invocation wrote
    fs,         \* the file system: path -> content, or NoFile
    now,        \* the wall clock
    exchange,   \* what the exchange answers at the moment
    req         \* a direct call of an endpoint function

vars == <<args, mainpc, threads, next, pc, start, err, tests, calls, requests,
          returned, written, fs, now, exchange, req>>

collector == <<pc, start, err, tests, calls, requests, returned, written, fs>>
driver == <<args, mainpc, threads, next>>

\* A path with no file.
NoFile == [exists |-> FALSE, lines |-> <<>>]
File(lines) == [exists |-> TRUE, lines |-> lines]
NoErr == "none"
Terminal == {"done", "crashed"}

\* ------------------------------------------------------------- file system
\* main's save_dir for a pair.
SaveDir(pair) == <<BASE_SAVE_DIR, pair, "kraken">>

\* join(save_dir, info_type) + '.txt'
FilePathShared(save_dir, info_type) == save_dir \o <<"ticker", ".txt">>

FilePath(save_dir, info_type) == save_dir \o <<info_type, ".txt">>

\* Every path a run for one of the pairs can open.
Paths == {<<BASE_SAVE_DIR, p, "kraken", t, ".txt">> : p \in Pairs, t \in InfoTypes}

Record(ts, response) == [ts |-> ts, response |-> response]

\* What an earlier run left in a file.
PriorContent == File(<<Record(0, "old")>>)

\* open(path, 'w'): the content of the file once opened.
OpenAppend(content) == File(content.lines)

OpenTruncate(content) == File(<<>>)

\* ------------------------------------------------------------ store_info
\* The keyword arguments main gives the thread of an info_type.
Kwargs(info_type, a) ==
    CASE info_type = "order_book" -> [depth |-> a.depth]
      [] info_type = "candles" -> [granularity |-> a.granularity]
      [] OTHER -> <<>>

Raise(e) == [kind |-> "raise", value |-> e]
Return(v) == [kind |-> "return", value |-> v]

\* FN_MAPPING[info_type](product_id=pair, **kwargs): the lookup and the
\* binding of the keyword arguments, before the function body runs.
Bind(info_type, kwargs) ==
    IF info_type \notin DOMAIN FN_MAPPING THEN "KeyError"
    ELSE IF ~(({"product_id"} \cup DOMAIN kwargs)
                \subseteq Params(FN_MAPPING[info_type])) THEN "TypeError"
    ELSE "ok"

\* The outcome of the whole call when the exchange answers `answer`.
Call(info_type, kwargs, answer) ==
    IF Bind(info_type, kwargs) # "ok" THEN Raise(Bind(info_type, kwargs))
    ELSE IF Transport(answer) # "ok" THEN Raise(Transport(answer))
    ELSE Return(make_request(answer.body))

\* file.write(json.dumps({'ts': ..., 'response': ...})); file.write('\n'):
\* the dict is built, call included, before anything is written.
WriteEager(content, ts, outcome) ==
    IF outcome.kind = "return"
    THEN File(Append(content.lines, Record(ts, outcome.value)))
    ELSE File(Append(content.lines, [ts |-> ts]))

Write(content, ts, outcome) ==
    IF outcome.kind = "return"
    THEN File(Append(content.lines, Record(ts, outcome.value)))
    ELSE content

\* while time.time() - start < collection_time
LoopTestShort(t, s, collection_time) == t - s < collection_time - 1

LoopTest(t, s, collection_time) == t - s < collection_time

\* Where control goes once start is read: the loop tests before its body.
LoopEntryBody == "call"

LoopEntry == "test"

\* ------------------------------------------------------------------- main
Selected(a) == {t \in InfoTypes : a[FlagOf(t)] # 0}

\* The threads list main builds, in the order of its ifs.
ThreadList(a) ==
    (IF a.ticker # 0 THEN <<"ticker">> ELSE <<>>)
    \o (IF a.order_book # 0 THEN <<"order_book">> ELSE <<>>)
    \o (IF a.spreads # 0 THEN <<"spread">> ELSE <<>>)
    \o (IF a.trades # 0 THEN <<"trades">> ELSE <<>>)
    \o (IF a.candles # 0 THEN <<"candles">> ELSE <<>>)

\* for t in threads: t.start() -- has the loop more threads to start?
MoreToStartFirstOnly(i, ths) == i <= Len(ths) /\ i <= 1

MoreToStart(i, ths) == i <= Len(ths)

ArgSets ==
    {a \in [time : 0..MaxDuration, pair : {PAIR},
            ticker : {0, 1}, order_book : {0, 1}, spreads : {0, 1},
            trades : {0, 1}, candles : {0, 1},
            depth : {DefaultDepth}, granularity : {DefaultGranularity}] :
        Cardinality(Selected(a)) <= MaxSelected}

NoArgs ==
    [time |-> 0, pair |-> PAIR, ticker |-> 0, order_book |-> 0, spreads |-> 0,
     trades |-> 0, candles |-> 0, depth |-> DefaultDepth,
     granularity |-> DefaultGranularity]

IdleReq ==
    [pc |-> "idle", fn |-> "none", url |-> <<>>, resp |-> NoEnvelope,
     ret |-> "none"]

InitCollector ==
    /\ pc = [t \in InfoTypes |-> "none"]
    /\ start = [t \in InfoTypes |-> 0]
    /\ err = [t \in InfoTypes |-> NoErr]
    /\ tests = [t \in InfoTypes |-> 0]
    /\ calls = [t \in InfoTypes |-> 0]
    /\ requests = [t \in InfoTypes |-> 0]
    /\ returned = [t \in InfoTypes |-> 0]
    /\ written = [t \in InfoTypes |-> <<>>]
    /\ threads = <<>>
    /\ next = 1
    /\ req = IdleReq

\* The process is launched with a command line; an earlier run may have left
\* its files behind.
Init ==
    /\ args \in ArgSets
    /\ mainpc = "init"
    /\ InitCollector
    /\ \E prior \in BOOLEAN :
          fs = [p \in Paths |-> IF prior THEN PriorContent ELSE NoFile]
    /\ now = 0
    /\ exchange = Accepted

\* main, lines 153-201: the output directory and the threads list.
MainInit ==
    /\ mainpc = "init"
    /\ threads' = ThreadList(args)
    /\ pc' = [t \in InfoTypes |->
                IF \E i \in 1..Len(ThreadList(args)) : ThreadList(args)[i] = t
                THEN "created" ELSE pc[t]]
    /\ next' = 1
    /\ mainpc' = "starting"
    /\ UNCHANGED <<args, start, err, tests, calls, requests, returned, written,
                   fs, now, exchange, req>>

\* main, lines 203-204: t.start() for the next thread of the list.
MainStart ==
    /\ mainpc = "starting"
    /\ MoreToStart(next, threads)
    /\ pc' = [pc EXCEPT ![threads[next]] = "running"]
    /\ next' = next + 1
    /\ UNCHANGED <<args, mainpc, threads, start, err, tests, calls, requests,
                   returned, written, fs, now, exchange, req>>

\* main returns once the for loop is over; it joins no thread.
MainReturn ==
    /\ mainpc = "starting"
    /\ ~MoreToStart(next, threads)
    /\ mainpc' = "returned"
    /\ UNCHANGED <<args, threads, next, collector, now, exchange, req>>

\* store_info, lines 103-104: open(join(save_dir, info_type) + '.txt', 'w')
\* and start = time.time()
StoreInfoOpen(t) ==
    /\ pc[t] = "running"
    /\ fs' = [fs EXCEPT ![FilePath(SaveDir(args.pair), t)] = OpenTruncate(@)]
    /\ start' = [start EXCEPT ![t] = now]
    /\ pc' = [pc EXCEPT ![t] = LoopEntry]
    /\ UNCHANGED <<driver, err, tests, calls, requests, returned, written,
                   now, exchange, req>>

\* store_info, line 105: the loop test; leaving the loop closes the file.
StoreInfoTest(t) ==
    /\ pc[t] = "test"
    /\ pc' = [pc EXCEPT ![t] =
                IF LoopTest(now, start[t], args.time) THEN "call" ELSE "done"]
    /\ tests' = [tests EXCEPT ![t] = @ + 1]
    /\ UNCHANGED <<driver, start, err, calls, requests, returned, written,
                   fs, now, exchange, req>>

\* store_info, lines 106-110: ts is read, the endpoint is called (the request,
\* when one is issued, takes some time), and the record is written; an
\* exception leaves the with block and ends the thread.
StoreInfoCall(t) ==
    /\ pc[t] = "call"
    /\ calls[t] < MaxCalls
    /\ LET kwargs == Kwargs(t, args)
           issued == Bind(t, kwargs) = "ok"
           outcome == Call(t, kwargs, exchange)
           path == FilePath(SaveDir(args.pair), t)
       IN /\ calls' = [calls EXCEPT ![t] = @ + 1]
          /\ requests' = [requests EXCEPT ![t] = IF issued THEN @ + 1 ELSE @]
          /\ returned' = [returned EXCEPT ![t] =
                            IF outcome.kind = "return" THEN @ + 1 ELSE @]
          /\ fs' = [fs EXCEPT ![path] = Write(@, now, outcome)]
          /\ written' = [written EXCEPT ![t] =
                            IF outcome.kind = "return"
                            THEN Append(@, Record(now, outcome.value)) ELSE @]
          /\ err' = [err EXCEPT ![t] =
                            IF outcome.kind = "raise" THEN outcome.value ELSE @]
          /\ pc' = [pc EXCEPT ![t] =
                            IF outcome.kind = "raise" THEN "crashed" ELSE "test"]
          /\ IF issued
             THEN \E latency \in 0..(MaxTime - now) : now' = now + latency
             ELSE now' = now
    /\ UNCHANGED <<driver, start, tests, exchange, req>>

\* The wall clock advances.
Tick ==
    /\ now < MaxTime
    /\ now' = now + 1
    /\ UNCHANGED <<driver, collector, exchange, req>>

\* The exchange changes what it answers. Only a request reads the answer, so
\* the changes that can be observed are those made while a request is due.
ExchangeChange(answers) ==
    /\ (\E t \in InfoTypes : pc[t] = "call") \/ req.pc = "inflight"
    /\ \E a \in answers \ {exchange} : exchange' = a
    /\ UNCHANGED <<driver, collector, now, req>>

Main == MainInit \/ MainStart \/ MainReturn

Thread(t) ==
    StoreInfoOpen(t) \/ StoreInfoTest(t) \/ StoreInfoCall(t)

Next ==
    \/ MainInit
    \/ MainStart
    \/ MainReturn
    \/ \E t \in InfoTypes : StoreInfoOpen(t)
    \/ \E t \in InfoTypes : StoreInfoTest(t)
    \/ \E t \in InfoTypes : StoreInfoCall(t)
    \/ Tick
    \/ ExchangeChange(CollectorAnswers)

Spec == Init /\ [][Next]_vars

\* ------------------------------------------- calling an endpoint directly
\* The module is imported and an endpoint function is called with a pair and
\* its other defaults; no collector runs.
InitRequest ==
    /\ args = NoArgs
    /\ mainpc = "none"
    /\ InitCollector
    /\ fs = [p \in Paths |-> NoFile]
    /\ now = 0
    /\ exchange \in Answers

\* get_*(pair): the URL is built and make_request is entered.
EndpointCall(fn, pair) ==
    /\ req.pc = "idle"
    /\ req' = [req EXCEPT !.pc = "inflight", !.fn = fn, !.url = UrlOf(fn, pair)]
    /\ UNCHANGED <<driver, collector, now, exchange>>

\* make_request, lines 213-215: requests.get(url).json() raises, or the
\* envelope is parsed and result or ret_msg is returned.
RequestsGet ==
    /\ req.pc = "inflight"
    /\ req' = IF Transport(exchange) # "ok"
              THEN [req EXCEPT !.pc = "raised", !.ret = Transport(exchange)]
              ELSE [req EXCEPT !.pc = "returned", !.resp = exchange.body,
                               !.ret = make_request(exchange.body)]
    /\ UNCHANGED <<driver, collector, now, exchange>>

NextRequest ==
    \/ \E fn \in EndpointNames, pair \in Pairs : EndpointCall(fn, pair)
    \/ RequestsGet
    \/ ExchangeChange(Answers)

SpecRequest == InitRequest /\ [][NextRequest]_vars

\* The scheduler runs main and every started thread; nothing is assumed of
\* the clock or of the exchange.
FairSpec ==
    /\ Spec
    /\ WF_vars(Main)
    /\ \A t \in InfoTypes : WF_vars(Thread(t))

\* ================================================================= claims
AfterOpen == {"test", "call", "done", "crashed"}
TransportErrors == {"ConnectionError", "JSONDecodeError"}

\* {BASE_SAVE_DIR}/{pair}/kraken/{info_type}.txt of the current run.
ExpectedPath(t) == <<"../../datasets/", args.pair, "kraken", t, ".txt">>

Lines(t) == fs[ExpectedPath(t)].lines

IsPrefix(a, b) == Len(a) <= Len(b) /\ SubSeq(b, 1, Len(a)) = a

\* C1: make_request returns exactly the envelope's result when ret_code is 0
\* and exactly its ret_msg when ret_code is any other value, never the result
\* for a non-zero code.
C1_ResultOrMessage ==
    req.pc = "returned" =>
        /\ (req.resp.ret_code = 0 => req.ret = req.resp.result)
        /\ (req.resp.ret_code # 0 =>
                req.ret = req.resp.ret_msg /\ req.ret # req.resp.result)

C1_Witness ==
    /\ req.pc = "returned"
    /\ req.resp.ret_code < 0
    /\ req.ret = "invalid symbol"

\* C2: every collector that enters its loop body reaches its first HTTP
\* request: the endpoint lookup and the binding of the call's arguments
\* succeed for every data type the CLI can select.
C2_CollectorReachesRequest ==
    \A t \in InfoTypes : calls[t] > 0 => requests[t] > 0

\* C3 (as claimed): when store_info finishes normally, the last record of its
\* file has ts >= start + D.
C3_LastRecordReachesDuration ==
    \A t \in InfoTypes :
        pc[t] = "done" =>
            /\ Len(Lines(t)) > 0
            /\ Lines(t)[Len(Lines(t))].ts >= start[t] + args.time

\* C3 (amended): when store_info finishes normally, the clock has reached
\* start + D; the loop does not exit early.
C3_NoUnderRun ==
    \A t \in InfoTypes : pc[t] = "done" => now - start[t] >= args.time

C3_Witness ==
    \E t \in InfoTypes :
        /\ pc[t] = "done"
        /\ args.time > 0
        /\ now >= start[t] + args.time
        /\ Lines(t) = <<>>

\* C4 (as claimed): every store_info invocation performs at least one request
\* and writes at least one record, duration 0 included.
C4_AtLeastOneRequest ==
    \A t \in InfoTypes :
        pc[t] = "done" => calls[t] >= 1 /\ Len(written[t]) >= 1

\* C4 (amended): the loop tests before every endpoint call, the first
\* included, so an invocation with duration 0 calls no endpoint and writes no
\* record.
C4_TestBeforeCall ==
    \A t \in InfoTypes :
        /\ calls[t] <= tests[t]
        /\ (pc[t] = "call" => calls[t] < tests[t])
        /\ (args.time = 0 /\ pc[t] \in AfterOpen =>
                pc[t] \in {"test", "done"} /\ calls[t] = 0 /\ Lines(t) = <<>>)

C4_Witness ==
    \E t \in InfoTypes :
        /\ pc[t] = "done"
        /\ args.time = 0
        /\ tests[t] = 1
        /\ calls[t] = 0
        /\ Lines(t) = <<>>

\* C5: with several data types selected, every collector that has opened its
\* file has a file of its own under the derived directory, and a file changes
\* only in a step of the thread of that file's data type, under every
\* interleaving; no file of another pair's directory changes.
C5_OneFilePerType ==
    /\ [](\A t \in InfoTypes :
            pc[t] \in AfterOpen => fs[ExpectedPath(t)].exists)
    /\ [][\A p \in Paths :
            fs'[p] # fs[p] => p[2] = args.pair /\ pc'[p[4]] # pc[p[4]]]_vars

C5_Witness ==
    \E t, u \in InfoTypes :
        /\ t # u
        /\ pc[t] \in AfterOpen /\ pc[u] \in AfterOpen
        /\ fs[ExpectedPath(t)].exists /\ fs[ExpectedPath(u)].exists
        /\ \E v \in InfoTypes : ~fs[ExpectedPath(v)].exists

\* C6: once a collector has opened its file, the file holds exactly the
\* records this run wrote, whatever an earlier run left in it, also when this
\* run wrote none.
C6_RerunTruncates ==
    \A t \in InfoTypes : pc[t] \in AfterOpen => Lines(t) = written[t]

C6_Witness ==
    \E t, u \in InfoTypes :
        /\ pc[t] \in Terminal
        /\ Lines(t) = <<>>
        /\ pc[u] = "none"
        /\ fs[ExpectedPath(u)] = PriorContent

\* C7: an iteration whose request the exchange answers with a non-zero
\* ret_code appends the record {ts, ret_msg} to the collector's file and goes
\* back to the loop test.
C7_ErrorIsRecorded ==
    [][\A t \in InfoTypes :
        (/\ pc[t] = "call"
         /\ pc'[t] # "call"
         /\ exchange.fault = "none"
         /\ exchange.body.ret_code # 0) =>
            /\ pc'[t] = "test"
            /\ Lines(t)' = Append(Lines(t), Record(now, exchange.body.ret_msg))]_vars

\* C8: a collector thread ends before its duration has elapsed only by a
\* transport or parse failure of its own request; every other thread runs for
\* its full duration.
C8_OnlyTransportFailureEndsEarly ==
    \A t \in InfoTypes :
        (pc[t] \in Terminal /\ now - start[t] < args.time) =>
            pc[t] = "crashed" /\ err[t] \in TransportErrors

C10_AppendOnly ==
    /\ [](\A t \in InfoTypes :
            pc[t] \in AfterOpen =>
                /\ Len(Lines(t)) = returned[t]
                /\ \A i \in 1..Len(Lines(t)) :
                      DOMAIN Lines(t)[i] = {"ts", "response"}
                /\ \A i, j \in 1..Len(Lines(t)) :
                      i <= j => Lines(t)[i].ts <= Lines(t)[j].ts)
    /\ [][\A t \in InfoTypes :
            pc[t] \in AfterOpen => IsPrefix(Lines(t), Lines(t)')]_vars

C10_Witness ==
    \E t, u \in InfoTypes :
        /\ pc[t] = "crashed"
        /\ calls[t] = 1
        /\ returned[t] = 0
        /\ Lines(t) = <<>>
        /\ pc[u] = "none"
        /\ fs[ExpectedPath(u)] = PriorContent

====
